---- MODULE Spec2Model ----
(***************************************************************************)
(* XEO.Model (src/src/importing/model.js): a component that binds the      *)
(* path of a glTF file (its `src` property) to a XEO.Collection holding    *)
(* the scene components loaded from that file.                             *)
(*                                                                         *)
(* The Model's own code (_init, the src setter and its completion          *)
(* callback, _clear, _getJSON, _destroy) is translated from model.js.      *)
(* Its collaborators XEO.GLTFLoader, XEO.Collection and XEO.Component are  *)
(* not part of model.js; they are modelled from their documented contract  *)
(* and marked as such where they are defined.                              *)
(***************************************************************************)
EXTENDS Integers, Sequences, FiniteSets, TLC

\* ------------------------------------------------------------------ bounds

\* Total number of glTFLoader.load calls in a behaviour.
MaxLoads == 2
\* Total number of scene components the loads of a behaviour create.
MaxComponents == 2

\* ------------------------------------------------------------ JS values

\* A JavaScript value handed to the src setter or to the constructor's cfg.src:
\* its typeof and its content.
Str(x) == [t |-> "string", s |-> x]
Null == [t |-> "null", s |-> ""]
Undefined == [t |-> "undefined", s |-> ""]
Num(x) == [t |-> "number", s |-> x]
Obj == [t |-> "object", s |-> "{}"]

Paths == {Str("a.gltf"), Str("b.gltf")}
\* Values that are not accepted as a path: the falsy ones, and the truthy
\* ones that are no string.
Falsy == {Str(""), Null, Undefined, Num("0")}
NonStrings == {Num("7"), Obj}
Values == Paths \cup Falsy \cup NonStrings

\* JavaScript truthiness, as `!value` tests it (model.js:141, model.js:171).
Truthy(v) ==
    CASE v.t = "string" -> v.s # ""
      [] v.t = "number" -> v.s \notin {"0", "NaN"}
      [] v.t \in {"null", "undefined"} -> FALSE
      [] OTHER -> TRUE

\* XEO._isString (called at model.js:146 and model.js:175).
IsString(v) == v.t = "string"

\* --------------------------------------------------------------- state

AllModels == {1, 2}

VARIABLES
    models,        \* the Models that have been constructed
    src,           \* src[m]: this._src, Null until a path is accepted
    collectionOf,  \* collectionOf[m]: this._collection, the id of m's XEO.Collection (0: none)
    collection,    \* collection[c]: members of XEO.Collection c, insertion order
    destroyed,     \* destroyed[m]: Component.destroy() has run on the Model
    destroyedAt,   \* history: number of loads started when m was destroyed, -1 before
    ldrCollection, \* glTFLoader: the collection given to setCollection (0: none)
    ldrPath,       \* glTFLoader: the path given to initWithPath
    loads,         \* glTFLoader: every load started, in order; its index is its id
    destroyLog,    \* every destroy() invoked on a loaded component, in order
    events,        \* every event fired by a Model, in order
    lastError      \* the message of the latest Component.error call ("": none)

vars == <<models, src, collectionOf, collection, destroyed, destroyedAt, ldrCollection,
          ldrPath, loads, destroyLog, events, lastError>>

Range(s) == {s[i] : i \in 1..Len(s)}

RECURSIVE Without(_, _)
Without(s, o) ==
    IF s = <<>> THEN <<>>
    ELSE IF s[1] = o THEN Without(Tail(s), o)
    ELSE <<s[1]>> \o Without(Tail(s), o)

\* The part of the state a call into the Model reads and writes.
Current ==
    [src |-> src, handle |-> collectionOf, coll |-> collection, log |-> destroyLog,
     ldrColl |-> ldrCollection, ldrPath |-> ldrPath, loads |-> loads,
     events |-> events, error |-> lastError]

\* ------------------------------------------- collaborators (contract)

\* XEO.Collection.add: appends the component; no-op if already a member.
CollectionAdd(members, o) ==
    IF o \in Range(members) THEN members ELSE Append(members, o)

\* XEO.Collection.iterate: visits the members in insertion order.
CollectionIterate(members) == members

\* XEO.Component.destroy on a loaded component: the component's destroy
\* is invoked and, as its side effect, it leaves every collection that holds it.
ComponentDestroy(o, st) ==
    [st EXCEPT !.log = Append(@, o),
               !.coll = [k \in DOMAIN @ |-> Without(@[k], o)]]

\* XEO.Component.fire.
Fire(m, name, value, load, st) ==
    [st EXCEPT !.events =
        Append(@, [model |-> m, name |-> name, value |-> value, load |-> load])]

\* XEO.Component.error: reports through the host's error channel.
Error(msg, st) == [st EXCEPT !.error = msg]

\* glTFLoader.setCollection.
LoaderSetCollection(c, st) == [st EXCEPT !.ldrColl = c]

\* glTFLoader.initWithPath.
LoaderInitWithPath(p, st) == [st EXCEPT !.ldrPath = p]

\* glTFLoader.load: starts an asynchronous load of the configured path into the
\* configured collection; `owner` is the `self` its completion callback closes
\* over. sinkLen (history) is the size of the sink when load was called.
LoaderLoad(owner, st) ==
    [st EXCEPT !.loads =
        Append(@, [sink |-> st.ldrColl, path |-> st.ldrPath, owner |-> owner,
                   made |-> 0, done |-> FALSE,
                   sinkLen |-> IF st.ldrColl \in DOMAIN st.coll
                               THEN Len(st.coll[st.ldrColl]) ELSE 0])]

\* ------------------------------------------------------------- XEO.Model

\* Faulty variant of _clear's loop that destroys the last element of c but
\* removes the first (c[c.length - 1].destroy(); c.shift()): C14 must not
\* survive it.
RECURSIVE ClearLoopNoPop(_, _)
ClearLoopNoPop(c, st) ==
    IF Len(c) = 0 THEN st
    ELSE ClearLoopNoPop(Tail(c), ComponentDestroy(c[Len(c)], st))

\* Faulty variant of _clear's loop that takes the members from the front
\* (c.shift().destroy()): C18, as amended, must not survive it.
RECURSIVE ClearLoopShift(_, _)
ClearLoopShift(c, st) ==
    IF Len(c) = 0 THEN st
    ELSE ClearLoopShift(Tail(c), ComponentDestroy(c[1], st))

\* _clear's loop (model.js:245-247): while (c.length) c.pop().destroy().
RECURSIVE ClearLoop(_, _)
ClearLoop(c, st) ==
    IF Len(c) = 0 THEN st
    ELSE ClearLoop(SubSeq(c, 1, Len(c) - 1), ComponentDestroy(c[Len(c)], st))

\* Faulty variant of _clear whose loop stops one member early
\* (while (c.length > 1)): C8 must not survive it.
_clearKeepsOne(m, st) ==
    LET c == CollectionIterate(st.coll[st.handle[m]])
    IN  IF Len(c) = 0 THEN st ELSE ClearLoop(Tail(c), st)

\* _clear (model.js:236-248): snapshot the members, then destroy each.
_clear(m, st) == ClearLoop(CollectionIterate(st.coll[st.handle[m]]), st)

\* Faulty variant of SrcAccept that starts the load before clearing the
\* collection: C6 must not survive it.
SrcAcceptLoadFirst(m, value, st) ==
    LET s1 == [st EXCEPT !.src[m] = value]
        s2 == LoaderSetCollection(s1.handle[m], s1)
        s3 == LoaderInitWithPath(s2.src[m], s2)
        s4 == LoaderLoad(m, s3)
        s5 == _clear(m, s4)
    IN  Fire(m, "src", s5.src[m], Len(s5.loads), s5)

\* Faulty variant of SrcAccept that fires no "src" event: C7 must not
\* survive it.
SrcAcceptNoFire(m, value, st) ==
    LET s1 == _clear(m, st)
        s2 == [s1 EXCEPT !.src[m] = value]
        s3 == LoaderSetCollection(s2.handle[m], s2)
        s4 == LoaderInitWithPath(s3.src[m], s3)
    IN  LoaderLoad(m, s4)

\* Faulty variant of SrcAccept that gives the loader its collection only
\* after it has started the load: C15 must not survive it.
SrcAcceptLateSetCollection(m, value, st) ==
    LET s1 == _clear(m, st)
        s2 == [s1 EXCEPT !.src[m] = value]
        s3 == LoaderInitWithPath(s2.src[m], s2)
        s4 == LoaderLoad(m, s3)
        s5 == LoaderSetCollection(s4.handle[m], s4)
    IN  Fire(m, "src", s5.src[m], Len(s5.loads), s5)

\* Faulty variant of SrcAccept that fires "src" with the path it had before
\* the assignment: C16 must not survive it.
SrcAcceptFireOld(m, value, st) ==
    LET s1 == _clear(m, st)
        s2 == [s1 EXCEPT !.src[m] = value]
        s3 == LoaderSetCollection(s2.handle[m], s2)
        s4 == LoaderInitWithPath(s3.src[m], s3)
        s5 == LoaderLoad(m, s4)
    IN  Fire(m, "src", st.src[m], Len(s5.loads), s5)

\* Faulty variant of SrcAccept that replaces this._collection by a new, empty
\* XEO.Collection instead of clearing it: C20 must not survive it.
SrcAcceptNewCollection(m, value, st) ==
    LET fresh == CHOOSE c \in DOMAIN st.coll : c # st.handle[m]
        s1 == [st EXCEPT !.handle[m] = fresh, !.coll[fresh] = <<>>]
        s2 == [s1 EXCEPT !.src[m] = value]
        s3 == LoaderSetCollection(s2.handle[m], s2)
        s4 == LoaderInitWithPath(s3.src[m], s3)
        s5 == LoaderLoad(m, s4)
    IN  Fire(m, "src", s5.src[m], Len(s5.loads), s5)

\* The src setter's body once the value is accepted (model.js:180-207).
SrcAccept(m, value, st) ==
    LET s1 == _clear(m, st)
        s2 == [s1 EXCEPT !.src[m] = value]
        s3 == LoaderSetCollection(s2.handle[m], s2)
        s4 == LoaderInitWithPath(s3.src[m], s3)
        s5 == LoaderLoad(m, s4)
    IN  Fire(m, "src", s5.src[m], Len(s5.loads), s5)

\* Faulty variant of the src setter without the string check of
\* model.js:175-178: C9 must not survive it.
SrcSetNoTypeCheck(m, value, st) ==
    IF ~Truthy(value) THEN st
    ELSE [st EXCEPT !.src[m] = value]

\* Faulty variant of the src setter without the falsy check of
\* model.js:171-173: C10 must not survive it.
SrcSetNoFalsyCheck(m, value, st) ==
    IF ~IsString(value) THEN [st EXCEPT !.error = "Value for 'src' should be a string"]
    ELSE [st EXCEPT !.src[m] = value]

\* Faulty variant of the src setter that returns early when the value equals
\* the current path: C12 must not survive it.
SrcSetSkipSame(m, value, st) ==
    IF ~Truthy(value) THEN st
    ELSE IF ~IsString(value) THEN Error("Value for 'src' should be a string", st)
    ELSE IF value = st.src[m] THEN st
    ELSE SrcAccept(m, value, st)

\* The src setter (model.js:169-208).
SrcSet(m, value, st) ==
    IF ~Truthy(value) THEN st
    ELSE IF ~IsString(value) THEN Error("Value for 'src' should be a string", st)
    ELSE SrcAccept(m, value, st)

\* Faulty variant of the completion callback that fires nothing: C13 must
\* not survive it.
OnLoadedSilent(m, load, st) == st

\* The completion callback handed to glTFLoader.load (model.js:192-200).
OnLoaded(m, load, st) == Fire(m, "loaded", Null, load, st)

\* Faulty variant of _init without the check of model.js:141-144, which hands
\* cfg.src to the setter as it is: C11 must not survive it.
ModelInitNoCheck(m, cfgSrc, st) ==
    SrcSet(m, cfgSrc, [st EXCEPT !.handle[m] = m, !.coll[m] = <<>>, !.src[m] = Null])

\* Faulty variant of _init that validates cfg.src but does not assign it
\* (no model.js:151): C17 must not survive it.
ModelInitNoAssign(m, cfgSrc, st) ==
    LET s1 == [st EXCEPT !.handle[m] = m, !.coll[m] = <<>>, !.src[m] = Null]
    IN  IF ~Truthy(cfgSrc) THEN Error("Config missing: 'src'", s1)
        ELSE IF ~IsString(cfgSrc)
             THEN Error("Value for config 'src' should be a string", s1)
        ELSE s1

\* _init (model.js:129-152), on the state in which nothing exists yet.
ModelInit(m, cfgSrc, st) ==
    LET s1 == [st EXCEPT !.handle[m] = m, !.coll[m] = <<>>, !.src[m] = Null]
    IN  IF ~Truthy(cfgSrc) THEN Error("Config missing: 'src'", s1)
        ELSE IF ~IsString(cfgSrc)
             THEN Error("Value for config 'src' should be a string", s1)
        ELSE SrcSet(m, cfgSrc, s1)

\* The src getter (model.js:210-212).
SrcGet(m, st) == st.src[m]

\* The collection getter (model.js:230-232).
CollectionGet(m, st) == st.handle[m]

\* _getJSON (model.js:250-254).
_getJSON(m, st) == [src |-> st.src[m]]

\* Faulty variant of _destroy that does not clear the collection: C5 must
\* not survive it.
_destroyNoClear(m, st) == st

\* _destroy (model.js:256-258).
_destroy(m, st) == _clear(m, st)

\* XEO.Component.destroy on a Model: runs _destroy on the first call and is a
\* no-op on a Model that is already destroyed.
XeoDestroy(m, st) == IF destroyed[m] THEN st ELSE _destroy(m, st)

\* ------------------------------------------------------------- actions

Blank ==
    [src |-> [m \in AllModels |-> Null], handle |-> [m \in AllModels |-> 0],
     coll |-> [m \in AllModels |-> <<>>],
     log |-> <<>>, ldrColl |-> 0, ldrPath |-> Null, loads |-> <<>>,
     events |-> <<>>, error |-> ""]

Commit(st) ==
    /\ src' = st.src
    /\ collectionOf' = st.handle
    /\ collection' = st.coll
    /\ destroyLog' = st.log
    /\ ldrCollection' = st.ldrColl
    /\ ldrPath' = st.ldrPath
    /\ loads' = st.loads
    /\ events' = st.events
    /\ lastError' = st.error

\* new XEO.Model({src: cfgSrc}): one Model, constructed with any cfg.src.
Init ==
    \E cfgSrc \in Values :
        LET st == ModelInit(1, cfgSrc, Blank)
        IN  /\ models = {1}
            /\ src = st.src
            /\ collectionOf = st.handle
            /\ collection = st.coll
            /\ destroyLog = st.log
            /\ ldrCollection = st.ldrColl
            /\ ldrPath = st.ldrPath
            /\ loads = st.loads
            /\ events = st.events
            /\ destroyed = [m \in AllModels |-> FALSE]
            /\ destroyedAt = [m \in AllModels |-> -1]
            /\ lastError = st.error

\* model.src = value
SetSrc(m, value) ==
    LET st == SrcSet(m, value, Current)
    IN  /\ Len(st.loads) <= MaxLoads
        /\ Commit(st)
        /\ UNCHANGED <<models, destroyed, destroyedAt>>

\* model.destroy(): XEO.Component.destroy runs _destroy on the first call only.
Destroy(m) ==
    LET st == XeoDestroy(m, Current)
    IN  /\ Commit(st)
        /\ destroyed' = [destroyed EXCEPT ![m] = TRUE]
        /\ destroyedAt' = IF destroyed[m] THEN destroyedAt
                          ELSE [destroyedAt EXCEPT ![m] = Len(loads)]
        /\ UNCHANGED models

\* The number of components the loads have created so far.
RECURSIVE MadeUpTo(_)
MadeUpTo(n) == IF n = 0 THEN 0 ELSE loads[n].made + MadeUpTo(n - 1)
Made == MadeUpTo(Len(loads))

\* glTFLoader, while load l is running: creates the next component of the
\* file and adds it to the load's collection.
LoaderInsert(l) ==
    /\ ~loads[l].done
    /\ Made < MaxComponents
    /\ LET o == [load |-> l, n |-> loads[l].made + 1]
           k == loads[l].sink
       IN  /\ collection' = [collection EXCEPT ![k] = CollectionAdd(@, o)]
           /\ loads' = [loads EXCEPT ![l].made = @ + 1]
    /\ UNCHANGED <<models, src, collectionOf, destroyed, destroyedAt,
                   ldrCollection, ldrPath, destroyLog, events, lastError>>

\* glTFLoader, when load l finishes: invokes its completion callback, once.
LoaderComplete(l) ==
    /\ ~loads[l].done
    /\ LET st == OnLoaded(loads[l].owner, l,
                          [Current EXCEPT !.loads[l].done = TRUE])
       IN  Commit(st)
    /\ UNCHANGED <<models, destroyed, destroyedAt>>

Next ==
    \/ \E m \in models, value \in Values : SetSrc(m, value)
    \/ \E m \in models : Destroy(m)
    \/ \E l \in 1..Len(loads) : LoaderInsert(l)
    \/ \E l \in 1..Len(loads) : LoaderComplete(l)

Spec == Init /\ [][Next]_vars

\* The loader invokes the completion callback of every load it was given
\* (its contract: exactly once, also when the file fails to load).
CompleteSome == \E l \in 1..Len(loads) : LoaderComplete(l)
SpecLive == Spec /\ WF_vars(CompleteSome)

\* new XEO.Model({src: cfgSrc}) for a further Model, which uses the same
\* glTFLoader as the Models that exist already.
Construct(m, cfgSrc) ==
    /\ m \notin models
    /\ LET st == ModelInit(m, cfgSrc, Current)
       IN  /\ Len(st.loads) <= MaxLoads
           /\ Commit(st)
    /\ models' = models \cup {m}
    /\ UNCHANGED <<destroyed, destroyedAt>>

\* new XEO.Model(k.json): a Model constructed from the JSON of Model k.
Restore(k, m) == Construct(m, _getJSON(k, Current).src)

NextShared ==
    \/ Next
    \/ \E m \in AllModels, cfgSrc \in Values : Construct(m, cfgSrc)
    \/ \E k \in models, m \in AllModels : Restore(k, m)

\* Two Models that share the loader.
SpecShared == Init /\ [][NextShared]_vars

\* ------------------------------------------------------------ vocabulary

Count(o, s) == Cardinality({i \in 1..Len(s) : s[i] = o})

LoadsOf(m) == {l \in 1..Len(loads) : loads[l].owner = m}

\* The load of m's last accepted path assignment (0: none yet).
CurrentLoad(m) ==
    IF LoadsOf(m) = {} THEN 0
    ELSE CHOOSE l \in LoadsOf(m) : \A k \in LoadsOf(m) : k <= l

\* Load l has been superseded by a later accepted assignment to its Model.
Stale(l) == l # CurrentLoad(loads[l].owner)

\* A step in which load l's completion callback runs.
Completes(l) == ~loads[l].done /\ loads'[l].done

\* A step in which the loader creates a component of load l.
Inserts(l) == loads'[l].made = loads[l].made + 1

\* A step that is an accepted path assignment to m.
Accepts(m) == Len(loads') = Len(loads) + 1 /\ loads'[Len(loads')].owner = m

\* --------------------------------------------------------------- claims

\* C1: the collection never holds components created by the loads of two
\* different path assignments at the same time.
C1_OneLoadResident ==
    \A m \in models : \A o1, o2 \in Range(collection[m]) : o1.load = o2.load

\* C2: whenever the load of the last accepted assignment has completed, the
\* collection holds only components created by that load.
C2_LoadedHoldsLastLoad ==
    \A m \in models :
        (CurrentLoad(m) # 0 /\ loads[CurrentLoad(m)].done)
            => \A o \in Range(collection[m]) : o.load = CurrentLoad(m)

\* C3: the completion of a superseded load fires no "loaded" event and does
\* not change the collection.
C3_StaleCompletionIgnored ==
    [][\A l \in 1..Len(loads) :
          (Completes(l) /\ Stale(l))
              => (events' = events /\ collection' = collection)]_vars

\* C4: once destroy() has run, a load that was in flight at that moment
\* fires no "loaded" event and inserts no component.
C4_LateLoadIgnoredAfterDestroy ==
    [][\A l \in 1..Len(loads) :
          (/\ destroyed[loads[l].owner]
           /\ l <= destroyedAt[loads[l].owner]
           /\ (Completes(l) \/ Inserts(l)))
              => (events' = events /\ collection' = collection)]_vars

\* C5: the step in which a Model is destroyed leaves its collection empty and
\* every component the collection held has had destroy invoked exactly once.
C5_DestroyEmptiesAndDestroysOnce ==
    [][\A m \in models :
          (~destroyed[m] /\ destroyed'[m])
              => /\ collection'[m] = <<>>
                 /\ \A o \in Range(collection[m]) : Count(o, destroyLog') = 1]_vars

\* C5 witness: a Model whose only load created two components has been
\* destroyed, and both have been destroyed by it.
C5_Witness ==
    /\ destroyed[1]
    /\ Len(loads) = 1
    /\ Len(destroyLog) = 2
    /\ collection[1] = <<>>

\* C6: an accepted assignment, in any reachable state, destroys every member of
\* the collection and empties it, then records the path, then starts a load of
\* that path into the Model's collection, which is empty when load is called.
C6_ClearRecordLoad ==
    \A m \in models, v \in Paths :
        LET st == SrcSet(m, v, Current)
            l == Len(st.loads)
        IN  /\ st.coll[m] = <<>>
            /\ \A o \in Range(collection[m]) :
                  Count(o, st.log) = Count(o, destroyLog) + 1
            /\ st.src[m] = v
            /\ l = Len(loads) + 1
            /\ st.loads[l].path = v
            /\ st.loads[l].sink = m
            /\ st.loads[l].sinkLen = 0

\* C6 witness: a second assignment was accepted while the collection held
\* components, which it destroyed.
C6_Witness ==
    /\ Len(loads) = 2
    /\ destroyLog # <<>>
    /\ ~destroyed[1]
    /\ collection[1] = <<>>
    /\ src[1] = loads[2].path

\* C7: every "loaded" event is preceded in the event log by the "src" event of
\* the same assignment.
C7_SrcBeforeLoaded ==
    \A i \in 1..Len(events) :
        events[i].name = "loaded"
            => \E j \in 1..(i - 1) :
                  /\ events[j].name = "src"
                  /\ events[j].model = events[i].model
                  /\ events[j].load = events[i].load

\* C7 witness: the loads of two assignments have both fired "loaded".
C7_Witness ==
    Cardinality({i \in 1..Len(events) : events[i].name = "loaded"}) = 2

\* C8 (as claimed): while the load of the current path is in flight the
\* collection is empty.
C8_EmptyWhileInFlight ==
    \A m \in models :
        (CurrentLoad(m) # 0 /\ ~loads[CurrentLoad(m)].done)
            => collection[m] = <<>>

\* C8 (amended): the collection is empty when an accepted assignment returns;
\* afterwards it gains components only one at a time, as a running load creates
\* them; a completion callback never changes it.
C8_EmptyUntilFirstInsert ==
    [][\A m \in models :
          /\ Accepts(m) => collection'[m] = <<>>
          /\ (collection'[m] # collection[m] /\ collection'[m] # <<>>)
                => \E l \in 1..Len(loads) :
                      /\ ~loads[l].done
                      /\ Inserts(l)
                      /\ loads[l].sink = m
                      /\ collection'[m] =
                            Append(collection[m],
                                   [load |-> l, n |-> loads'[l].made])
          /\ \A l \in 1..Len(loads) :
                Completes(l) => collection' = collection]_vars

\* C8 witness: the load of the current path is still in flight and the
\* collection already holds a component it created.
C8_Witness ==
    /\ CurrentLoad(1) # 0
    /\ ~loads[CurrentLoad(1)].done
    /\ [load |-> CurrentLoad(1), n |-> 1] \in Range(collection[1])

\* C9: assigning a truthy value that is no string, in any reachable state,
\* reports an error and changes nothing else: path, collection, loader and
\* loads, destroy log and events are as before.
C9_NonStringRejected ==
    \A m \in models, v \in NonStrings :
        SrcSet(m, v, Current) =
            [Current EXCEPT !.error = "Value for 'src' should be a string"]

\* C9 witness: the error has been reported by a Model that has a path, a
\* component in its collection and a load in flight.
C9_Witness ==
    /\ lastError = "Value for 'src' should be a string"
    /\ src[1] # Null
    /\ collection[1] # <<>>
    /\ \E l \in 1..Len(loads) : ~loads[l].done

\* C10: assigning a falsy value, in any reachable state, changes nothing: no
\* path change, no component destroyed, no load, no event, no error.
C10_FalsyIgnored ==
    \A m \in models, v \in Falsy : SrcSet(m, v, Current) = Current

\* C10 witness: a state with a path, a component in the collection and a load
\* in flight, which an assignment of the empty string leaves as it is.
C10_Witness ==
    /\ src[1] # Null
    /\ collection[1] # <<>>
    /\ \E l \in 1..Len(loads) : ~loads[l].done
    /\ SrcSet(1, Str(""), Current) = Current

\* C11: constructing a Model without a path reports "Config missing: 'src'"
\* and leaves it unset: path null, collection empty, no load, no event. A
\* later assignment of a path, in any state reached without one, starts a load.
C11_MissingSrcLeavesUnset ==
    /\ \A v \in Falsy :
          ModelInit(1, v, Blank) =
              [Blank EXCEPT !.handle[1] = 1, !.error = "Config missing: 'src'"]
    /\ (lastError = "Config missing: 'src'" /\ loads = <<>>)
          => /\ src[1] = Null
             /\ collection[1] = <<>>
             /\ events = <<>>
             /\ \A v \in Paths :
                   LET st == SrcSet(1, v, Current)
                   IN  /\ st.src[1] = v
                       /\ Len(st.loads) = 1
                       /\ st.loads[1].path = v
                       /\ ~st.loads[1].done

\* C11 witness: a Model constructed without a path was later assigned one and
\* is loading it.
C11_Witness ==
    /\ lastError = "Config missing: 'src'"
    /\ Len(loads) = 1
    /\ ~loads[1].done
    /\ src[1] = loads[1].path
    /\ Len(events) = 1

\* C12: assigning the current path again, in any reachable state, destroys
\* every member of the collection, starts a further load and fires "src" again;
\* no component that has been destroyed is ever a member of a collection.
C12_SamePathReloads ==
    /\ \A m \in models :
          src[m] # Null =>
              LET st == SrcSet(m, src[m], Current)
              IN  /\ st.coll[collectionOf[m]] = <<>>
                  /\ \A o \in Range(collection[collectionOf[m]]) :
                        Count(o, st.log) = Count(o, destroyLog) + 1
                  /\ Len(st.loads) = Len(loads) + 1
                  /\ st.loads[Len(st.loads)].path = src[m]
                  /\ Len(st.events) = Len(events) + 1
                  /\ st.events[Len(st.events)].name = "src"
                  /\ st.events[Len(st.events)].value = src[m]
    /\ \A c \in DOMAIN collection : \A o \in Range(collection[c]) :
          Count(o, destroyLog) = 0

\* C12 witness: the same path was assigned twice, the components of the first
\* load were destroyed and the collection holds a component of the second.
C12_Witness ==
    /\ Len(loads) = 2
    /\ loads[1].path = loads[2].path
    /\ [load |-> 1, n |-> 1] \in Range(destroyLog)
    /\ [load |-> 2, n |-> 1] \in Range(collection[1])

\* C13: when the loader completes every load and path assignments stop, each
\* Model that was assigned a path ends up, and stays, with the load of its last
\* accepted path completed and "loaded" fired for it.
C13_EventuallyLoaded ==
    <>[](\A m \in models :
            CurrentLoad(m) # 0 =>
                /\ loads[CurrentLoad(m)].done
                /\ \E i \in 1..Len(events) :
                      /\ events[i].name = "loaded"
                      /\ events[i].model = m
                      /\ events[i].load = CurrentLoad(m))

\* C13 witness: the load of the second accepted path has completed and fired
\* "loaded".
C13_Witness ==
    /\ Len(loads) = 2
    /\ loads[2].done
    /\ \E i \in 1..Len(events) :
          events[i].name = "loaded" /\ events[i].load = 2

C15_OwnLoadsOnly ==
    \A m \in models :
        /\ \A o \in Range(collection[collectionOf[m]]) : loads[o.load].owner = m
        /\ LET st == _clear(m, Current)
           IN  /\ \A i \in (Len(destroyLog) + 1)..Len(st.log) :
                     loads[st.log[i].load].owner = m
               /\ \A k \in models \ {m} :
                     st.coll[collectionOf[k]] = collection[collectionOf[k]]

\* C15 witness: the loads of two Models are in flight at the same time and
\* each has added a component to its Model's collection.
C15_Witness ==
    /\ models = {1, 2}
    /\ \E l1, l2 \in 1..Len(loads) :
          /\ loads[l1].owner = 1 /\ ~loads[l1].done
          /\ loads[l2].owner = 2 /\ ~loads[l2].done
          /\ [load |-> l1, n |-> 1] \in Range(collection[collectionOf[1]])
          /\ [load |-> l2, n |-> 1] \in Range(collection[collectionOf[2]])

\* The "src" events of Model m, in the order they were fired.
SrcEventsOf(m) ==
    SelectSeq(events, LAMBDA e : e.name = "src" /\ e.model = m)

\* C16: an accepted assignment, in any reachable state, appends exactly one
\* event to the log, "src" with the assigned path as its value, within the
\* setter; and in every state the src getter returns the value of the Model's
\* latest "src" event (null when there is none).
C16_OneSrcEventWithNewPath ==
    \A m \in models :
        /\ \A v \in Paths :
              LET st == SrcSet(m, v, Current)
              IN  /\ st.events =
                        Append(events, [model |-> m, name |-> "src", value |-> v,
                                        load |-> Len(loads) + 1])
                  /\ SrcGet(m, st) = v
        /\ SrcGet(m, Current) =
              IF SrcEventsOf(m) = <<>> THEN Null
              ELSE SrcEventsOf(m)[Len(SrcEventsOf(m))].value

\* C16 witness: two assignments of different paths were accepted; the log
\* holds their two "src" events and the getter returns the second path.
C16_Witness ==
    /\ Len(SrcEventsOf(1)) = 2
    /\ SrcEventsOf(1)[1].value # SrcEventsOf(1)[2].value
    /\ SrcGet(1, Current) = SrcEventsOf(1)[2].value

\* C17: the JSON of a Model is exactly {src: its path or null}; a Model
\* constructed from it has the same JSON and, when the path is set, has started
\* exactly one load of that path into its own, empty collection, while the
\* original's collection is as it was.
C17_JsonRoundTrip ==
    \A k \in models :
        LET json == _getJSON(k, Current)
        IN  /\ DOMAIN json = {"src"}
            /\ json.src = SrcGet(k, Current)
            /\ \A m \in AllModels \ models :
                  LET st == ModelInit(m, json.src, Current)
                      l == Len(st.loads)
                  IN  /\ _getJSON(m, st) = json
                      /\ st.coll[st.handle[m]] = <<>>
                      /\ st.coll[collectionOf[k]] = collection[collectionOf[k]]
                      /\ src[k] # Null =>
                            /\ l = Len(loads) + 1
                            /\ st.loads[l] =
                                  [sink |-> st.handle[m], path |-> src[k],
                                   owner |-> m, made |-> 0, done |-> FALSE,
                                   sinkLen |-> 0]

\* C17 witness: a second Model was constructed from the JSON of a Model whose
\* collection holds a component; it has the same path and JSON, an empty
\* collection and its own load in flight.
C17_Witness ==
    /\ models = {1, 2}
    /\ src[1] # Null
    /\ _getJSON(2, Current) = _getJSON(1, Current)
    /\ collection[collectionOf[1]] # <<>>
    /\ collection[collectionOf[2]] = <<>>
    /\ CurrentLoad(2) # 0
    /\ loads[CurrentLoad(2)].made = 0
    /\ ~loads[CurrentLoad(2)].done

Reverse(s) == [i \in 1..Len(s) |-> s[Len(s) + 1 - i]]

\* C18 (as claimed): _clear, in any reachable state, invokes destroy on the
\* members of the collection in insertion order, first inserted first, each
\* once, and leaves the collection empty.
C18_ClearInInsertionOrder ==
    \A m \in models :
        LET st == _clear(m, Current)
        IN  /\ st.log = destroyLog \o collection[collectionOf[m]]
            /\ st.coll[collectionOf[m]] = <<>>

\* C18 (amended): _clear, in any reachable state, invokes destroy on the
\* members of the collection in reverse insertion order, last inserted first,
\* each once, and leaves the collection empty.
C18_ClearInReverseOrder ==
    \A m \in models :
        LET st == _clear(m, Current)
        IN  /\ st.log = destroyLog \o Reverse(collection[collectionOf[m]])
            /\ st.coll[collectionOf[m]] = <<>>

\* C18 witness: a collection that held the two components of one load has been
\* cleared: the second was destroyed right before the first.
C18_Witness ==
    /\ collection[1] = <<>>
    /\ \E i \in 1..(Len(destroyLog) - 1) :
          /\ destroyLog[i] = [load |-> 1, n |-> 2]
          /\ destroyLog[i + 1] = [load |-> 1, n |-> 1]

EventCount(name, ev) == Cardinality({i \in 1..Len(ev) : ev[i].name = name})

\* C19: in every reachable state the number of loads started equals the number
\* of "src" events and is at least the number of "loaded" events; and an
\* assignment adds one load and one "src" event if its value is a non-empty
\* string, none otherwise, and never a "loaded" event.
C19_CountsAgree ==
    /\ Len(loads) = EventCount("src", events)
    /\ EventCount("loaded", events) <= Len(loads)
    /\ \A m \in models, v \in Values :
          LET st == SrcSet(m, v, Current)
              d == IF v \in Paths THEN 1 ELSE 0
          IN  /\ Len(st.loads) = Len(loads) + d
              /\ EventCount("src", st.events) = EventCount("src", events) + d
              /\ EventCount("loaded", st.events) = EventCount("loaded", events)

\* C19 witness: two assignments were accepted, two loads started, two "src"
\* events fired and one load has fired "loaded".
C19_Witness ==
    /\ Len(loads) = 2
    /\ EventCount("src", events) = 2
    /\ EventCount("loaded", events) = 1

\* C20: a Model's collection is the one its constructor created, in every
\* reachable state; no assignment, clear or destroy replaces it; every load was
\* started with that collection as the loader's collection; and an accepted
\* assignment leaves the loader configured with that collection and the new
\* path, which are the ones of the load it starts.
C20_SameCollectionIsSink ==
    \A m \in models :
        /\ CollectionGet(m, Current) = m
        /\ \A l \in LoadsOf(m) : loads[l].sink = CollectionGet(m, Current)
        /\ _clear(m, Current).handle = collectionOf
        /\ XeoDestroy(m, Current).handle = collectionOf
        /\ \A v \in Values : SrcSet(m, v, Current).handle = collectionOf
        /\ \A v \in Paths :
              LET st == SrcSet(m, v, Current)
                  l == Len(st.loads)
              IN  /\ st.ldrColl = CollectionGet(m, st)
                  /\ st.ldrPath = SrcGet(m, st)
                  /\ st.loads[l].sink = CollectionGet(m, st)
                  /\ st.loads[l].path = SrcGet(m, st)
                  /\ SrcGet(m, st) = v

\* C20 witness: a Model that was assigned a second path and then destroyed
\* still has the collection of its constructor, into which both loads went.
C20_Witness ==
    /\ Len(loads) = 2
    /\ destroyed[1]
    /\ CollectionGet(1, Current) = 1
    /\ loads[1].sink = 1
    /\ loads[2].sink = 1
    /\ loads[1].path # loads[2].path

====
